---- MODULE Spec2Model ----
(***************************************************************************)
(* Bilingual-Scholar: the study-guide synthesis loop of                    *)
(* src/services/geminiService.ts (generateStudyGuide).  One run of the     *)
(* async function is a state machine whose steps are the loop heads, the   *)
(* two suspension points (the backoff delay and the generation call) and   *)
(* the handling of the call's outcome.                                     *)
(*                                                                         *)
(* Specifications:                                                         *)
(*   Spec       one run of generateStudyGuide over nChunks chunks          *)
(*   SpecChunk  chunkText applied to a text and a maximum length           *)
(*   SpecReconcile  the section/image matching of handleFileSelect         *)
(*   SpecUpload  handleFileSelect from the file to the stored StudyFile    *)
(*   SpecFlashcards  the queue-based flashcard session (FlashcardView)     *)
(*   SpecExam  the multiple-choice exam (ExamView)                         *)
(*   SpecApp  the file list, the active file and the status of App         *)
(*   SpecEdit  edits of the active file through handleUpdateContent        *)
(*   SpecIndexCards  the index-based flashcard view (unnamed/part_000)     *)
(***************************************************************************)
EXTENDS Integers, Sequences, FiniteSets, TLC

\* ------------------------------------------------------------------ bounds
MaxChunks == 3
MaxSections == 2
MaxCalls == 5
MaxTextLen == 5
MaxChunkLen == 3
MaxTopicLen == 4
MaxRawSections == 2
MaxPages == 3
MaxCards == 6
MaxClicks == 4
MaxPending == 2
MaxQuestions == 3
MaxOptions == 2
MaxStored == 2
MaxUploads == 2
MaxEditSections == 2
MaxPoints == 2
MaxEdits == 2
MaxDeck == 3

\* ------------------------------------------------- constants of the program
maxRetries == 3
BaseDelayMs == 1000
RetryDelayMs == 2000
CHUNK_SIZE == 4000

VARIABLES
    nChunks,      \* chunks.length
    i,            \* index of the for loop
    retries,      \* let retries
    success,      \* let success
    allSections,  \* let allSections
    errorCount,   \* let errorCount
    pc,           \* position of the run inside generateStudyGuide
    resp,         \* the settled generation call being handled, if any
    waited,       \* milliseconds slept right before the pending call, 0 if none
    status,       \* "running", "returned" or "threw"
    result,       \* the value the promise resolved with
    error,        \* the error the promise rejected with
    calls,        \* history: generation calls issued for chunk i so far
    exhausted,    \* history: chunks that left the while loop without success
    returned,     \* history: per chunk, the sections of its successful attempt
    attempted,    \* history: the chunks in the order of their first call
    inFlight,     \* history: generation calls issued and not yet settled
    succeeded,    \* history: chunks one of whose attempts set success
    \* chunkText
    text,         \* the text to split, a sequence of characters
    maxLength,    \* the maximum chunk length asked for
    chunks,       \* the chunks chunkText returned
    ctPc,         \* "idle", "ready" (inputs chosen) or "chunked"
    \* the section/image matching of handleFileSelect
    rawSections,      \* the sections generateStudyGuide returned
    imageMap,         \* page/slide number -> images, from the extraction
    enrichedSections, \* the sections with their images field
    rcPc,             \* "idle", "ready" (inputs chosen) or "matched"
    \* App and handleFileSelect
    file,             \* the File handed to handleFileSelect
    hfPc,             \* "idle", "extract", "generate" or "done"
    appStatus,        \* App's status state
    files,            \* App's files state
    activeFileId,     \* App's activeFileId state
    viewMode,         \* App's viewMode state
    thrown,           \* <<error>> once the try block has thrown, else <<>>
    now,              \* Date.now()
    loaded,           \* the load effect of the mount has run
    storage,          \* what localStorage held at the mount
    lastEdit,         \* history: the arguments of the last handleUpdateContent
    \* FlashcardView (components/FlashcardView.tsx)
    cards,            \* the card ids, in deck order
    queue,            \* queue state
    mastered,         \* mastered state
    currentCardId,    \* currentCardId state
    isFlipped,        \* isFlipped state
    timers,           \* the pending 300 ms timeouts, oldest first
    clicks,           \* history: rating clicks so far
    \* ExamView (components/ExamView.tsx)
    questions,            \* per question (from index 0) its correctIndex
    currentQuestionIndex, \* currentQuestionIndex state
    selectedAnswers,      \* selectedAnswers state: question index -> option
    showResults,          \* showResults state
    lateSelect,           \* history: handleOptionSelect ran with results shown
    \* the index-based FlashcardView (unnamed/part_000)
    deck,             \* cards state: the card ids in their current order
    currentIndex,     \* currentIndex state
    flipped,          \* isFlipped state
    pending,          \* the pending 200 ms timeouts, oldest first: +1 or -1
    presses           \* history: Next, Previous and Shuffle clicks so far

genVars == <<nChunks, i, retries, success, allSections, errorCount, pc, resp,
             waited, status, result, error, calls, exhausted, returned,
             attempted, inFlight, succeeded>>

chunkVars == <<text, maxLength, chunks, ctPc>>

recVars == <<rawSections, imageMap, enrichedSections, rcPc>>

upVars == <<file, hfPc, appStatus, files, activeFileId, viewMode, thrown, now,
           loaded, storage, lastEdit>>

fcVars == <<cards, queue, mastered, currentCardId, isFlipped, timers, clicks>>

exVars == <<questions, currentQuestionIndex, selectedAnswers, showResults,
           lateSelect>>

\* the state of the study views
ixVars == <<deck, currentIndex, flipped, pending, presses>>

viewVars == <<fcVars, exVars, ixVars>>

\* everything generateStudyGuide does not touch
nonGenVars == <<chunkVars, recVars, upVars, viewVars>>

\* everything the study views do not touch
pipelineVars == <<genVars, chunkVars, recVars, upVars>>

vars == <<genVars, chunkVars, recVars, upVars, viewVars>>

\* everything FlashcardView does not touch
nonFcVars == <<pipelineVars, exVars, ixVars>>

\* everything ExamView does not touch
nonExVars == <<pipelineVars, fcVars, ixVars>>

\* everything the index-based flashcard view does not touch
nonIxVars == <<pipelineVars, fcVars, exVars>>

\* ---------------------------------------------------------------- chunkText
\* A text is a sequence of characters: "a" stands for any character that is
\* neither whitespace nor a line break.
Chars == {"a", " ", "\n"}

\* what String.prototype.trim() strips
Whitespace == {" ", "\n"}

Texts == UNION {[1..k -> Chars] : k \in 0..MaxTextLen}

\* text.split('\n')
RECURSIVE SplitLines(_)
SplitLines(t) ==
    IF \A p \in DOMAIN t : t[p] # "\n"
      THEN <<t>>
      ELSE LET k == CHOOSE p \in DOMAIN t :
                        t[p] = "\n" /\ \A q \in 1..(p - 1) : t[q] # "\n"
           IN <<SubSeq(t, 1, k - 1)>> \o SplitLines(SubSeq(t, k + 1, Len(t)))

\* (currentChunk.length + line.length) > maxLength && currentChunk.length > 0
ShouldFlush(cur, line, max) == (Len(cur) + Len(line)) > max /\ Len(cur) > 0

\* Variant: the line terminator is not put back.
AppendLineNoBreak(cur, line) == cur \o line

\* currentChunk += line + "\n"
AppendLine(cur, line) == cur \o line \o <<"\n">>

\* Variant: a flushed chunk replaces the list instead of being pushed on it.
PushChunkReplaces(cs, cur) == <<cur>>

\* chunks.push(currentChunk)
PushChunk(cs, cur) == Append(cs, cur)

\* Variant: the last accumulator is tested for emptiness without trim().
TrimmedNonEmptyUntrimmed(cur) == Len(cur) > 0

\* currentChunk.trim().length > 0
TrimmedNonEmpty(cur) == \E p \in DOMAIN cur : cur[p] \notin Whitespace

\* the for loop over the lines, from line k on
RECURSIVE ChunkLoop(_, _, _, _, _)
ChunkLoop(lines, k, cur, cs, max) ==
    IF k > Len(lines)
      THEN [currentChunk |-> cur, chunks |-> cs]
      ELSE LET flush == ShouldFlush(cur, lines[k], max)
               cs1 == IF flush THEN PushChunk(cs, cur) ELSE cs
               cur1 == IF flush THEN <<>> ELSE cur
           IN ChunkLoop(lines, k + 1, AppendLine(cur1, lines[k]), cs1, max)

ChunkText(t, max) ==
    LET end == ChunkLoop(SplitLines(t), 1, <<>>, <<>>, max)
    IN IF TrimmedNonEmpty(end.currentChunk)
         THEN PushChunk(end.chunks, end.currentChunk)
         ELSE end.chunks

ChunkIdle ==
    /\ text = <<>>
    /\ maxLength = CHUNK_SIZE
    /\ chunks = <<>>
    /\ ctPc = "idle"

\* ------------------------------------------------ section/image matching
\* A topic is a sequence of tokens: the words "Slide" and "page" (the pattern
\* is case-insensitive), one whitespace character " ", the digits "1" and
\* "2", and "x" for any other character.
TopicTokens == {"Slide", "page", " ", "1", "2", "x"}

Topics == UNION {[1..k -> TopicTokens] : k \in 0..MaxTopicLen}

\* (?:Slide|Page) under the i flag
IsKeyword(tok) == tok \in {"Slide", "page"}

\* \s
IsSpace(tok) == tok = " "

\* \d
IsDigit(tok) == tok \in {"1", "2"}

DigitValue(tok) == IF tok = "1" THEN 1 ELSE 2

\* \d+ is greedy: the longest run of digits from position p on
RECURSIVE DigitRun(_, _)
DigitRun(topic, p) ==
    IF p <= Len(topic) /\ IsDigit(topic[p])
      THEN <<topic[p]>> \o DigitRun(topic, p + 1)
      ELSE <<>>

\* parseInt(match[1]) of a run of digits
RECURSIVE ParseInt(_)
ParseInt(ds) ==
    IF ds = <<>> THEN 0
    ELSE 10 * ParseInt(SubSeq(ds, 1, Len(ds) - 1)) + DigitValue(ds[Len(ds)])

\* the pattern tried at position p: the captured digits, <<>> if it fails
MatchAt(topic, p) ==
    IF p <= Len(topic) /\ IsKeyword(topic[p])
      THEN LET afterSpace ==
                   IF p + 1 <= Len(topic) /\ IsSpace(topic[p + 1])
                     THEN DigitRun(topic, p + 2)
                     ELSE <<>>
           IN IF afterSpace # <<>> THEN afterSpace ELSE DigitRun(topic, p + 1)
      ELSE <<>>

\* Variant: the scan keeps the last match instead of the first.
RECURSIVE TopicMatchLast(_, _)
TopicMatchLast(topic, p) ==
    IF p > Len(topic) THEN <<>>
    ELSE IF TopicMatchLast(topic, p + 1) # <<>>
      THEN TopicMatchLast(topic, p + 1)
      ELSE MatchAt(topic, p)

\* section.topic.match(/(?:Slide|Page)\s?(\d+)/i): the start positions are
\* tried from left to right; match[1], <<>> for no match
RECURSIVE TopicMatch(_, _)
TopicMatch(topic, p) ==
    IF p > Len(topic) THEN <<>>
    ELSE IF MatchAt(topic, p) # <<>>
      THEN MatchAt(topic, p)
      ELSE TopicMatch(topic, p + 1)

\* the callback's matchedImages
MatchedImages(topic, imap) ==
    LET m == TopicMatch(topic, 1)
    IN IF m # <<>>
         THEN LET index == ParseInt(m)
              IN IF index \in DOMAIN imap THEN imap[index] ELSE <<>>
         ELSE <<>>

\* Variant: the spread forgets the optional fields.
WithImagesLosesOptional(section, imgs) ==
    [topic |-> section.topic, content |-> section.content,
     visualSummary |-> "absent", questions |-> <<>>, images |-> imgs]

\* { ...section, images: matchedImages }
WithImages(section, imgs) ==
    [topic |-> section.topic, content |-> section.content,
     visualSummary |-> section.visualSummary, questions |-> section.questions,
     images |-> imgs]

\* rawSections.map(section => ...)
EnrichSections(raw, imap) ==
    [k \in 1..Len(raw) |-> WithImages(raw[k], MatchedImages(raw[k].topic, imap))]

\* Record<number, string[]>: some page numbers have an entry, possibly empty
ImageMaps == UNION {[K -> {<<>>, <<"img1", "img2">>}] : K \in SUBSET {1, 2}}

\* the sections of one generation result: one topic is arbitrary, the other
\* ("x") carries no reference
RawSectionsWith(t) ==
    LET candidates ==
            {[topic |-> t, content |-> <<"c1", "c2">>, visualSummary |-> "v",
              questions |-> <<"q1">>],
             [topic |-> <<"x">>, content |-> <<"c3">>,
              visualSummary |-> "absent", questions |-> <<>>]}
    IN UNION {[1..k -> candidates] : k \in 0..MaxRawSections}

RecIdle ==
    /\ rawSections = <<>>
    /\ imageMap = <<>>
    /\ enrichedSections = <<>>
    /\ rcPc = "idle"

\* ------------------------------------------------------ handleFileSelect
PDF_MIME == "application/pdf"

PPTX_MIME ==
    "application/vnd.openxmlformats-officedocument.presentationml.presentation"

\* file.type
FileTypes == {PDF_MIME, PPTX_MIME, "text/plain", ""}

\* file.name as <<stem, extension>>, <<stem>> when the name has no extension
FileNames ==
    {<<"notes", ".pdf">>, <<"DECK", ".PPTX">>, <<"notes", ".txt">>, <<"README">>}

Files == [type : FileTypes, name : FileNames]

NoFile == [type |-> "", name |-> <<>>]

\* file.name.toLowerCase()
ToLowerCase(name) ==
    [k \in DOMAIN name |->
        CASE name[k] = "DECK" -> "deck"
          [] name[k] = "README" -> "readme"
          [] name[k] = ".PPTX" -> ".pptx"
          [] OTHER -> name[k]]

\* fileName.endsWith(suffix), the suffix being an extension
EndsWith(name, suffix) == name # <<>> /\ name[Len(name)] = suffix

IsPdf(f) == f.type = PDF_MIME \/ EndsWith(ToLowerCase(f.name), ".pdf")

\* Variant: the last branch of extractTextFromFile is the PPTX one.
IsPptxIsLastBranch(f) == TRUE

IsPptx(f) == f.type = PPTX_MIME \/ EndsWith(ToLowerCase(f.name), ".pptx")

\* the branch extractTextFromFile takes
ExtractorOf(f) ==
    IF IsPdf(f) THEN "pdf" ELSE IF IsPptx(f) THEN "pptx" ELSE "unsupported"

\* What a document holds: n pages or slides numbered 1..n, each with the
\* same text; for a PPTX, whether the slides have a relationships file and
\* whether that lists images.
Documents(kind) ==
    [n : 0..MaxPages, unitText : {<<>>, <<"a">>},
     rels : IF kind = "pptx" THEN {"none", "empty", "images"} ELSE {"none"}]

DigitChar(k) == ToString(k)

\* `--- Page ${i} ---\n` and `--- Slide ${slideIndex} ---\n`
Header(kind, k) ==
    <<"-", "-", "-", " ">>
      \o (IF kind = "pdf" THEN <<"P", "a", "g", "e">>
                          ELSE <<"S", "l", "i", "d", "e">>)
      \o <<" ", DigitChar(k), " ", "-", "-", "-", "\n">>

\* pageText: the items joined by " "; slideText: every text node plus " "
UnitText(kind, d) ==
    IF kind = "pptx" /\ d.unitText # <<>> THEN d.unitText \o <<" ">>
    ELSE d.unitText

\* fullText after the units 1..k
RECURSIVE FullText(_, _, _)
FullText(kind, d, k) ==
    IF k = 0 THEN <<>>
    ELSE FullText(kind, d, k - 1)
           \o Header(kind, k) \o UnitText(kind, d) \o <<"\n", "\n">>

\* the imageMap of the extraction: always {} for a PDF
ExtractedImageMap(kind, d) ==
    IF kind = "pdf" \/ d.rels = "none" THEN <<>>
    ELSE [k \in 1..d.n |->
             IF d.rels = "images" THEN <<"img1", "img2">> ELSE <<>>]

UnsupportedMessage == "Unsupported file format. Please upload a PDF or PPTX."

\* the message of a rejection that comes from pdf.js or JSZip
LibraryMessage == "library error"

\* the errors extractTextFromFile rejects with
ExtractionFailures(f) ==
    CASE ExtractorOf(f) = "pdf" ->
           {[message |-> "PDF.js library not loaded."],
            [message |-> LibraryMessage]}
      [] ExtractorOf(f) = "pptx" ->
           {[message |-> "JSZip library not loaded."],
            [message |-> LibraryMessage]}
      [] OTHER -> {[message |-> UnsupportedMessage]}

\* the Error generateStudyGuide throws
ErrorMessage(err) ==
    IF err.kind = "ConnectionFailed"
      THEN "Connection failed. Processed 0/" \o ToString(err.total)
             \o " parts. Please try a smaller file."
      ELSE "No content generated. The document might be empty or unreadable."

\* Variant: the catch block shows one fixed message.
CatchStatusGeneric(err) ==
    [step |-> "error", message |-> "Something went wrong."]

\* setStatus({ step: 'error', message: error.message || '...' })
CatchStatus(err) ==
    [step |-> "error",
     message |-> IF err.message # "" THEN err.message
                 ELSE "Something went wrong."]

\* the topics the generated sections can carry
UploadTopics == {<<"x">>, <<"Slide", " ", "1">>}

\* a generated section as a StudySection with the given topic
AsStudySection(sec, topic) ==
    [topic |-> topic, content |-> <<sec>>, visualSummary |-> "absent",
     questions |-> <<>>]

\* const newFile: StudyFile = { id: Date.now().toString(), ... }
NewFile(f, sections) ==
    [id |-> "now", name |-> f.name, sections |-> sections,
     flashcardProgress |-> [mastered |-> <<>>, queue |-> <<>>]]

\* a file stored by an earlier upload
PriorFile ==
    [id |-> "earlier", name |-> <<"old", ".pdf">>, sections |-> <<>>,
     flashcardProgress |-> [mastered |-> <<>>, queue |-> <<>>]]

\* localStorage.getItem(STORAGE_KEY) returned null
NoStorage == [kind |-> "null", files |-> <<>>]

\* handleUpdateContent has not been called
NoEdit == [sectionIndex |-> 0, contentIndex |-> 0, field |-> "", newValue |-> ""]

UpIdle ==
    /\ file = NoFile
    /\ hfPc = "idle"
    /\ appStatus = [step |-> "idle"]
    /\ files = <<>>
    /\ activeFileId = "null"
    /\ viewMode = "guide"
    /\ thrown = <<>>
    /\ now = 0
    /\ loaded = FALSE
    /\ storage = NoStorage
    /\ lastEdit = NoEdit

\* -------------------------------------------------------------------- App
\* a StudyFile stored at time t and last opened at time a
StoredFile(t, a) ==
    [id |-> ToString(t), name |-> <<"old", ".pdf">>, lastAccessed |-> a,
     sections |-> <<>>,
     flashcardProgress |-> [mastered |-> <<>>, queue |-> <<>>]]

\* what localStorage can hold: nothing, text that JSON.parse rejects, or a
\* list of files of earlier sessions, newest first as handleFileSelect
\* stores them
Storages ==
    {NoStorage, [kind |-> "corrupt", files |-> <<>>]}
      \cup {[kind |-> "list",
              files |-> [k \in 1..n |-> StoredFile(n + 1 - k, a[n + 1 - k])]] :
                n \in 0..MaxStored, a \in [1..MaxStored -> 1..MaxStored]}

\* the ids of the files of a list
Ids(fs) == {fs[k].id : k \in DOMAIN fs}

\* files.findIndex(f => f.id === id), from 1; 0 for -1
FindIndex(fs, id) ==
    IF id \in Ids(fs)
      THEN CHOOSE k \in DOMAIN fs :
               fs[k].id = id /\ \A j \in 1..(k - 1) : fs[j].id # id
      ELSE 0

\* [...parsedFiles].sort((a, b) => b.lastAccessed - a.lastAccessed)[0]:
\* the sort is stable, so the first of the most recently opened files
MostRecent(fs) ==
    fs[CHOOSE k \in DOMAIN fs :
           /\ \A j \in DOMAIN fs : fs[j].lastAccessed <= fs[k].lastAccessed
           /\ \A j \in 1..(k - 1) : fs[j].lastAccessed < fs[k].lastAccessed]

\* files.filter(f => f.id !== id)
FilesWithout(fs, id) == LET keep(f) == f.id # id IN SelectSeq(fs, keep)

\* Variant: a deletion leaves the active file id alone.
ActiveAfterDeleteKept(active, id, newFiles) == active

\* handleDeleteFile: if (activeFileId === id) setActiveFileId(...)
ActiveAfterDelete(active, id, newFiles) ==
    IF active = id
      THEN IF Len(newFiles) > 0 THEN newFiles[1].id ELSE "null"
      ELSE active

\* handleDeleteFile: ... if (newFiles.length === 0) setStatus({ step: 'idle' })
StatusAfterDelete(st, active, id, newFiles) ==
    IF active = id /\ Len(newFiles) = 0 THEN [step |-> "idle"] ELSE st

\* the sidebar is rendered
SidebarShown == Len(files) > 0 /\ appStatus.step = "complete"

\* --------------------------------------------------------- FlashcardView
\* useState<string | null>(null)
NoCard == 0

Difficulties == {"easy", "medium", "hard"}

\* Variant: a hard card goes to the end of the queue.
InsertIndexAtEnd(len) == len

\* Math.min(nextQueue.length, 4)
InsertIndex(len) == IF len < 4 THEN len ELSE 4

\* nextQueue.splice(insertIndex, 0, id)
Splice(q, at, id) == SubSeq(q, 1, at) \o <<id>> \o SubSeq(q, at + 1, Len(q))

\* nextQueue.shift() on a copy of prevQueue
Shift(q) == IF q = <<>> THEN <<>> ELSE Tail(q)

\* the queue the updater of setQueue returns
NextQueue(prevQueue, id, difficulty) ==
    LET nextQueue == Shift(prevQueue)
    IN CASE difficulty = "easy" -> nextQueue
         [] difficulty = "medium" -> Append(nextQueue, id)
         [] difficulty = "hard" ->
              Splice(nextQueue, InsertIndex(Len(nextQueue)), id)

FcIdle ==
    /\ cards = <<>>
    /\ queue = <<>>
    /\ mastered = {}
    /\ currentCardId = NoCard
    /\ isFlipped = FALSE
    /\ timers = <<>>
    /\ clicks = 0

\* ---------------------------------------------------------------- ExamView
\* the option indices of a question
Options == 0..(MaxOptions - 1)

\* useState<Record<number, number>>({})
NoAnswers == <<>>

\* selectedAnswers[idx] !== undefined
IsAnswered(sel, idx) == idx \in DOMAIN sel

\* Variant: the guard on showResults is missing.
SelectedAfterUnguarded(sel, show, idx, option) ==
    [k \in DOMAIN sel \cup {idx} |-> IF k = idx THEN option ELSE sel[k]]

\* handleOptionSelect: if (showResults) return; { ...prev, [idx]: option }
SelectedAfter(sel, show, idx, option) ==
    IF show THEN sel
    ELSE [k \in DOMAIN sel \cup {idx} |-> IF k = idx THEN option ELSE sel[k]]

\* Variant: Next is not disabled on an unanswered question.
NextEnabledAlways(sel, idx, n) == idx # n - 1

\* the Next Question button is rendered and not disabled
NextEnabled(sel, idx, n) == idx # n - 1 /\ IsAnswered(sel, idx)

\* the Submit Exam button is rendered and not disabled
SubmitEnabled(sel, idx, n) == idx = n - 1 /\ IsAnswered(sel, idx)

\* calculateScore()
CalculateScore(qs, sel) ==
    Cardinality({idx \in 0..(Len(qs) - 1) :
                    IsAnswered(sel, idx) /\ sel[idx] = qs[idx + 1]})

ExIdle ==
    /\ questions = <<>>
    /\ currentQuestionIndex = 0
    /\ selectedAnswers = NoAnswers
    /\ showResults = FALSE
    /\ lateSelect = FALSE

IxIdle ==
    /\ deck = <<>>
    /\ currentIndex = 0
    /\ flipped = FALSE
    /\ pending = <<>>
    /\ presses = 0

ViewIdle == FcIdle /\ ExIdle /\ IxIdle

\* ------------------------------------------------------- generation results
\* The section lists the model can return for chunk c: a section is named by
\* the chunk it was derived from and its place in the returned array.
SectionsOf(c) ==
    {[p \in 1..k |-> [chunk |-> c, idx |-> p]] : k \in 0..MaxSections}

\* What `await ai.models.generateContent(...)` can produce, by what the code
\* after it distinguishes:
\*   throw       the call rejects (transport, timeout, validation)
\*   undefined   response.text is undefined
\*   empty       response.text is ""
\*   notjson     JSON.parse(responseText) throws
\*   null        the text parses to null: data.sections throws a TypeError
\*   nosections  the text parses to an object without a truthy `sections`
\*   notarray    `sections` is truthy and not an array
\*   array       `sections` is an array (secs, possibly empty)
FailureKinds ==
    {"throw", "undefined", "empty", "notjson", "null", "nosections", "notarray"}

NoResponse == [kind |-> "none", secs |-> <<>>]

Responses(c) ==
    [kind : FailureKinds, secs : {<<>>}] \cup [kind : {"array"}, secs : SectionsOf(c)]

CallRejects(r) == r.kind = "throw"

\* if (responseText)
ResponseTextTruthy(r) == r.kind \notin {"throw", "undefined", "empty"}

\* JSON.parse(responseText) returns
JsonParses(r) == r.kind \in {"null", "nosections", "notarray", "array"}

\* Variant: an empty array is rejected like a missing one.
HasNonEmptySectionsArray(r) == r.kind = "array" /\ Len(r.secs) > 0

\* data.sections && Array.isArray(data.sections)
HasSectionsArray(r) == r.kind = "array"

\* the try block reaches `success = true`
AttemptSucceeds(r) ==
    ResponseTextTruthy(r) /\ JsonParses(r) /\ HasSectionsArray(r)

\* control reaches the catch block
AttemptThrows(r) ==
    \/ CallRejects(r)
    \/ ResponseTextTruthy(r) /\ ~JsonParses(r)
    \/ ResponseTextTruthy(r) /\ JsonParses(r) /\ ~HasSectionsArray(r)

\* ------------------------------------------------------------ the loop body
\* Variant: the loop head forgets the success flag.
WhileCondIgnoresSuccess(r, s) == r < maxRetries

\* while (retries < maxRetries && !success)
WhileCond(r, s) == r < maxRetries /\ ~s

\* const delay = 1000 + (retries * 2000)
BackoffDelay(r) == BaseDelayMs + (r * RetryDelayMs)

\* if (i > 0 || retries > 0) await new Promise(...)
ShouldWait(ci, r) == ci > 0 \/ r > 0

\* Variant: the new sections are put in front of the accumulated ones.
MergeSectionsPrepend(all, secs) == secs \o all

\* Variant: the accumulator is overwritten with the chunk's sections.
MergeSectionsReplace(all, secs) == secs

\* allSections = [...allSections, ...data.sections]
MergeSections(all, secs) == all \o secs

\* Variant: every failed attempt is counted as a failed chunk.
ErrorCountEveryFailure(ec, r) == ec + 1

\* if (retries >= maxRetries) errorCount++   (retries already incremented)
ErrorCountAfter(ec, r) == IF r >= maxRetries THEN ec + 1 ELSE ec

NoError == [kind |-> "none", processed |-> 0, total |-> 0]

Init ==
    /\ nChunks \in 0..MaxChunks
    /\ i = 0
    /\ retries = 0
    /\ success = FALSE
    /\ allSections = <<>>
    /\ errorCount = 0
    /\ pc = "for"
    /\ resp = NoResponse
    /\ waited = 0
    /\ status = "running"
    /\ result = <<>>
    /\ error = NoError
    /\ calls = 0
    /\ exhausted = {}
    /\ returned = [c \in 0..(nChunks - 1) |-> <<>>]
    /\ attempted = <<>>
    /\ inFlight = 0
    /\ succeeded = {}
    /\ ChunkIdle
    /\ RecIdle
    /\ UpIdle
    /\ ViewIdle

\* for (let i = 0; i < chunks.length; i++) { let retries = 0; let success = false;
ForLoop ==
    /\ pc = "for"
    /\ IF i < nChunks
         THEN /\ retries' = 0
              /\ success' = FALSE
              /\ calls' = 0
              /\ pc' = "while"
         ELSE /\ pc' = "post"
              /\ UNCHANGED <<retries, success, calls>>
    /\ UNCHANGED <<nChunks, i, allSections, errorCount, resp, waited, status,
                   result, error, exhausted, returned, attempted>>
    /\ UNCHANGED <<inFlight, succeeded>>
    /\ UNCHANGED nonGenVars

\* Variant: a chunk that runs out of attempts ends the whole loop.
WhileLoopAbortsOnExhaustion ==
    /\ pc = "while"
    /\ IF WhileCond(retries, success)
         THEN /\ pc' = "delay"
              /\ UNCHANGED <<i, exhausted>>
         ELSE IF success
         THEN /\ pc' = "for"
              /\ i' = i + 1
              /\ UNCHANGED exhausted
         ELSE /\ pc' = "post"
              /\ exhausted' = exhausted \cup {i}
              /\ UNCHANGED i
    /\ UNCHANGED <<nChunks, retries, success, allSections, errorCount, resp,
                   waited, status, result, error, calls, returned, attempted>>
    /\ UNCHANGED <<inFlight, succeeded>>
    /\ UNCHANGED nonGenVars

\* the head of the while loop; leaving it ends the iteration of chunk i (i++)
WhileLoop ==
    /\ pc = "while"
    /\ IF WhileCond(retries, success)
         THEN /\ pc' = "delay"
              /\ UNCHANGED <<i, exhausted>>
         ELSE /\ pc' = "for"
              /\ i' = i + 1
              /\ exhausted' = IF success THEN exhausted ELSE exhausted \cup {i}
    /\ UNCHANGED <<nChunks, retries, success, allSections, errorCount, resp,
                   waited, status, result, error, calls, returned, attempted>>
    /\ UNCHANGED <<inFlight, succeeded>>
    /\ UNCHANGED nonGenVars

\* the backoff delay before the call
Delay ==
    /\ pc = "delay"
    /\ waited' = IF ShouldWait(i, retries) THEN BackoffDelay(retries) ELSE 0
    /\ pc' = "call"
    /\ UNCHANGED <<nChunks, i, retries, success, allSections, errorCount, resp,
                   status, result, error, calls, exhausted, returned,
                   attempted>>
    /\ UNCHANGED <<inFlight, succeeded>>
    /\ UNCHANGED nonGenVars

\* Variant: the call is issued without await; the loop goes on at once.
IssueCallNotAwaited ==
    /\ pc = "call"
    /\ calls < MaxCalls
    /\ calls' = calls + 1
    /\ attempted' = IF calls = 0 THEN Append(attempted, i) ELSE attempted
    /\ pc' = "while"
    /\ UNCHANGED <<nChunks, i, retries, success, allSections, errorCount, resp,
                   waited, status, result, error, exhausted, returned>>
    /\ inFlight' = inFlight + 1
    /\ UNCHANGED succeeded
    /\ UNCHANGED nonGenVars

\* ai.models.generateContent({...}) is issued for chunk i
IssueCall ==
    /\ pc = "call"
    /\ calls < MaxCalls
    /\ calls' = calls + 1
    /\ attempted' = IF calls = 0 THEN Append(attempted, i) ELSE attempted
    /\ pc' = "inflight"
    /\ UNCHANGED <<nChunks, i, retries, success, allSections, errorCount, resp,
                   waited, status, result, error, exhausted, returned>>
    /\ inFlight' = inFlight + 1
    /\ UNCHANGED succeeded
    /\ UNCHANGED nonGenVars

\* the awaited call settles
CallSettles ==
    /\ pc = "inflight"
    /\ \E r \in Responses(i) : resp' = r
    /\ pc' = "response"
    /\ UNCHANGED <<nChunks, i, retries, success, allSections, errorCount,
                   waited, status, result, error, calls, exhausted, returned,
                   attempted>>
    /\ inFlight' = inFlight - 1
    /\ UNCHANGED succeeded
    /\ UNCHANGED nonGenVars

\* the rest of the try block and the catch block
HandleResponse ==
    /\ pc = "response"
    /\ IF AttemptSucceeds(resp)
         THEN /\ allSections' = MergeSections(allSections, resp.secs)
              /\ success' = TRUE
              /\ returned' = [returned EXCEPT ![i] = resp.secs]
              /\ UNCHANGED <<retries, errorCount>>
         ELSE IF AttemptThrows(resp)
         THEN /\ retries' = retries + 1
              /\ errorCount' = ErrorCountAfter(errorCount, retries + 1)
              /\ UNCHANGED <<allSections, success, returned>>
         ELSE \* falsy response text: neither branch runs, nothing is thrown
              UNCHANGED <<allSections, success, returned, retries, errorCount>>
    /\ resp' = NoResponse   \* `response` is scoped to the try block
    /\ pc' = "while"
    /\ UNCHANGED <<nChunks, i, waited, status, result, error, calls, exhausted,
                   attempted>>
    /\ succeeded' = IF AttemptSucceeds(resp) THEN succeeded \cup {i} ELSE succeeded
    /\ UNCHANGED inFlight
    /\ UNCHANGED nonGenVars

\* Variant: the connectivity message reports the failed chunks, not the total.
OutcomeReportsFailed(all, ec, n) ==
    IF Len(all) = 0
      THEN IF ec > 0
             THEN [status |-> "threw", result |-> <<>>,
                   error |-> [kind |-> "ConnectionFailed", processed |-> 0,
                              total |-> ec]]
             ELSE [status |-> "threw", result |-> <<>>,
                   error |-> [kind |-> "NoContent", processed |-> 0, total |-> 0]]
      ELSE [status |-> "returned", result |-> all, error |-> NoError]

\* Variant: the two failure reasons are not told apart (errorCount >= 0).
OutcomeAlwaysConnection(all, ec, n) ==
    IF Len(all) = 0
      THEN [status |-> "threw", result |-> <<>>,
            error |-> [kind |-> "ConnectionFailed", processed |-> 0, total |-> n]]
      ELSE [status |-> "returned", result |-> all, error |-> NoError]

\* Variant: the emptiness check after the loop is missing.
OutcomeUnchecked(all, ec, n) ==
    [status |-> "returned", result |-> all, error |-> NoError]

\* what the function ends with after the loop
Outcome(all, ec, n) ==
    IF Len(all) = 0
      THEN IF ec > 0
             THEN [status |-> "threw", result |-> <<>>,
                   error |-> [kind |-> "ConnectionFailed", processed |-> 0,
                              total |-> n]]
             ELSE [status |-> "threw", result |-> <<>>,
                   error |-> [kind |-> "NoContent", processed |-> 0, total |-> 0]]
      ELSE [status |-> "returned", result |-> all, error |-> NoError]

PostLoop ==
    /\ pc = "post"
    /\ LET o == Outcome(allSections, errorCount, nChunks)
       IN /\ status' = o.status
          /\ result' = o.result
          /\ error' = o.error
    /\ pc' = "done"
    /\ UNCHANGED <<nChunks, i, retries, success, allSections, errorCount, resp,
                   waited, calls, exhausted, returned, attempted>>
    /\ UNCHANGED <<inFlight, succeeded>>
    /\ UNCHANGED nonGenVars

Next ==
    \/ ForLoop
    \/ WhileLoop
    \/ Delay
    \/ IssueCall
    \/ CallSettles
    \/ HandleResponse
    \/ PostLoop

Spec == Init /\ [][Next]_vars

\* ------------------------------------------------------- chunkText applied
GenIdle ==
    /\ nChunks = 0
    /\ i = 0
    /\ retries = 0
    /\ success = FALSE
    /\ allSections = <<>>
    /\ errorCount = 0
    /\ pc = "idle"
    /\ resp = NoResponse
    /\ waited = 0
    /\ status = "running"
    /\ result = <<>>
    /\ error = NoError
    /\ calls = 0
    /\ exhausted = {}
    /\ returned = <<>>
    /\ attempted = <<>>
    /\ inFlight = 0
    /\ succeeded = {}

ChunkInit ==
    /\ text \in Texts
    /\ maxLength \in 1..MaxChunkLen
    /\ chunks = <<>>
    /\ ctPc = "ready"
    /\ GenIdle
    /\ RecIdle
    /\ UpIdle
    /\ ViewIdle

\* const chunks = chunkText(text, maxLength)
RunChunkText ==
    /\ ctPc = "ready"
    /\ chunks' = ChunkText(text, maxLength)
    /\ ctPc' = "chunked"
    /\ UNCHANGED <<text, maxLength, genVars, recVars, upVars, viewVars>>

ChunkNext == RunChunkText

SpecChunk == ChunkInit /\ [][ChunkNext]_vars

\* ------------------------------------------------ section/image matching
RecInit ==
    /\ imageMap \in ImageMaps
    /\ \E t \in Topics : rawSections \in RawSectionsWith(t)
    /\ enrichedSections = <<>>
    /\ rcPc = "ready"
    /\ GenIdle
    /\ ChunkIdle
    /\ UpIdle
    /\ ViewIdle

\* const enrichedSections = rawSections.map(...)
Reconcile ==
    /\ rcPc = "ready"
    /\ enrichedSections' = EnrichSections(rawSections, imageMap)
    /\ rcPc' = "matched"
    /\ UNCHANGED <<rawSections, imageMap, genVars, chunkVars, upVars, viewVars>>

RecNext == Reconcile

SpecReconcile == RecInit /\ [][RecNext]_vars

\* ------------------------------------------------------ handleFileSelect
\* status is 'idle', with or without files of earlier uploads (the sidebar's
\* new-upload button sets status idle and activeFileId null)
UpInit ==
    /\ file = NoFile
    /\ hfPc = "idle"
    /\ appStatus = [step |-> "idle"]
    /\ files \in {<<>>, <<PriorFile>>}
    /\ activeFileId = "null"
    /\ viewMode = "guide"
    /\ thrown = <<>>
    /\ now = 0
    /\ loaded = FALSE
    /\ storage = NoStorage
    /\ lastEdit = NoEdit
    /\ GenIdle
    /\ ChunkIdle
    /\ RecIdle
    /\ ViewIdle

\* handleFileSelect(file) up to its first await
SelectFile ==
    /\ appStatus.step = "idle"
    /\ hfPc = "idle"
    /\ \E f \in Files : file' = f
    /\ appStatus' = [step |-> "parsing",
                     message |-> "Extracting text and high-res visuals from document..."]
    /\ hfPc' = "extract"
    /\ UNCHANGED <<files, activeFileId, viewMode, thrown, now, loaded, storage>>
    /\ UNCHANGED <<genVars, chunkVars, recVars>>
    /\ UNCHANGED viewVars
    /\ UNCHANGED lastEdit

\* await extractTextFromFile(file) rejects; the catch block runs
ExtractFails ==
    /\ hfPc = "extract"
    /\ \E err \in ExtractionFailures(file) :
           /\ thrown' = <<err>>
           /\ appStatus' = CatchStatus(err)
    /\ hfPc' = "done"
    /\ UNCHANGED <<file, files, activeFileId, viewMode, now, loaded, storage>>
    /\ UNCHANGED <<genVars, chunkVars, recVars>>
    /\ UNCHANGED viewVars
    /\ UNCHANGED lastEdit

\* await extractTextFromFile(file) resolves; status becomes 'generating' and
\* generateStudyGuide(text) runs up to its loop: chunks = chunkText(text, 4000)
ExtractSucceeds ==
    /\ hfPc = "extract"
    /\ ExtractorOf(file) # "unsupported"
    /\ \E d \in Documents(ExtractorOf(file)) :
           /\ text' = FullText(ExtractorOf(file), d, d.n)
           /\ imageMap' = ExtractedImageMap(ExtractorOf(file), d)
    /\ appStatus' = [step |-> "generating",
                     message |-> "Analyzing content, generating detailed bilingual notes..."]
    /\ chunks' = ChunkText(text', CHUNK_SIZE)
    /\ ctPc' = "chunked"
    /\ nChunks' = Len(chunks')
    /\ returned' = [c \in 0..(nChunks' - 1) |-> <<>>]
    /\ pc' = "for"
    /\ hfPc' = "generate"
    /\ UNCHANGED <<file, files, activeFileId, viewMode, thrown, maxLength>>
    /\ UNCHANGED <<now, loaded, storage>>
    /\ UNCHANGED <<rawSections, enrichedSections, rcPc>>
    /\ UNCHANGED <<i, retries, success, allSections, errorCount, resp, waited,
                   status, result, error, calls, exhausted, attempted,
                   inFlight, succeeded>>
    /\ UNCHANGED viewVars
    /\ UNCHANGED lastEdit

\* await generateStudyGuide(text) rejects; the catch block runs
GenerateThrows ==
    /\ hfPc = "generate"
    /\ pc = "done"
    /\ status = "threw"
    /\ thrown' = <<[message |-> ErrorMessage(error)]>>
    /\ appStatus' = CatchStatus(thrown'[1])
    /\ hfPc' = "done"
    /\ UNCHANGED <<file, files, activeFileId, viewMode, now, loaded, storage>>
    /\ UNCHANGED <<genVars, chunkVars, recVars>>
    /\ UNCHANGED viewVars
    /\ UNCHANGED lastEdit

\* await generateStudyGuide(text) resolves: the sections get their images,
\* the new file is stored in front and made the active one
StoreFile ==
    /\ hfPc = "generate"
    /\ pc = "done"
    /\ status = "returned"
    /\ \E topics \in [DOMAIN result -> UploadTopics] :
           rawSections' =
               [k \in DOMAIN result |-> AsStudySection(result[k], topics[k])]
    /\ enrichedSections' = EnrichSections(rawSections', imageMap)
    /\ rcPc' = "matched"
    /\ files' = <<NewFile(file, enrichedSections')>> \o files
    /\ activeFileId' = NewFile(file, enrichedSections').id
    /\ appStatus' = [step |-> "complete"]
    /\ viewMode' = "guide"
    /\ hfPc' = "done"
    /\ UNCHANGED <<file, thrown, imageMap, now, loaded, storage>>
    /\ UNCHANGED <<genVars, chunkVars>>
    /\ UNCHANGED viewVars
    /\ UNCHANGED lastEdit

\* the Try Again button of the error card: setStatus({ step: 'idle' }); the
\* locals of the finished call are gone
TryAgain ==
    /\ appStatus.step = "error"
    /\ hfPc = "done"
    /\ appStatus' = [step |-> "idle"]
    /\ hfPc' = "idle"
    /\ file' = NoFile
    /\ thrown' = <<>>
    /\ nChunks' = 0 /\ i' = 0 /\ retries' = 0 /\ success' = FALSE
    /\ allSections' = <<>> /\ errorCount' = 0 /\ pc' = "idle"
    /\ resp' = NoResponse /\ waited' = 0 /\ status' = "running"
    /\ result' = <<>> /\ error' = NoError /\ calls' = 0
    /\ exhausted' = {} /\ returned' = <<>> /\ attempted' = <<>>
    /\ inFlight' = 0 /\ succeeded' = {}
    /\ text' = <<>> /\ chunks' = <<>> /\ ctPc' = "idle"
    /\ rawSections' = <<>> /\ imageMap' = <<>> /\ enrichedSections' = <<>>
    /\ rcPc' = "idle"
    /\ UNCHANGED <<files, activeFileId, viewMode, maxLength>>
    /\ UNCHANGED <<now, loaded, storage>>
    /\ UNCHANGED viewVars
    /\ UNCHANGED lastEdit

UpNext ==
    \/ SelectFile
    \/ ExtractFails
    \/ ExtractSucceeds
    \/ ForLoop
    \/ WhileLoop
    \/ Delay
    \/ IssueCall
    \/ CallSettles
    \/ HandleResponse
    \/ PostLoop
    \/ GenerateThrows
    \/ StoreFile
    \/ TryAgain

SpecUpload == UpInit /\ [][UpNext]_vars

\* --------------------------------------------------------- FlashcardView
\* the effect on [sections]: one card per content point, all of them queued
FcInit ==
    /\ \E n \in 0..MaxCards : cards = [k \in 1..n |-> k]
    /\ queue = cards
    /\ mastered = {}
    /\ currentCardId = IF cards # <<>> THEN cards[1] ELSE NoCard
    /\ isFlipped = FALSE
    /\ timers = <<>>
    /\ clicks = 0
    /\ GenIdle /\ ChunkIdle /\ RecIdle /\ UpIdle
    /\ ExIdle /\ IxIdle

\* the card is rendered and not flipped: onClick={() => !isFlipped && setIsFlipped(true)}
FlipCard ==
    /\ cards # <<>>
    /\ \E k \in DOMAIN cards : cards[k] = currentCardId
    /\ ~isFlipped
    /\ isFlipped' = TRUE
    /\ UNCHANGED <<cards, queue, mastered, currentCardId, timers, clicks>>
    /\ UNCHANGED nonFcVars

\* handleResult(difficulty) of the render that shows currentCardId: the
\* timeout's callback keeps that render's currentCardId
HandleResult ==
    /\ cards # <<>>
    /\ currentCardId # NoCard
    /\ clicks < MaxClicks
    /\ Len(timers) < MaxPending
    /\ \E d \in Difficulties :
           timers' = Append(timers, [id |-> currentCardId, difficulty |-> d])
    /\ isFlipped' = FALSE
    /\ clicks' = clicks + 1
    /\ UNCHANGED <<cards, queue, mastered, currentCardId>>
    /\ UNCHANGED nonFcVars

\* 300 ms later: setQueue(prevQueue => ...), with setMastered and
\* setCurrentCardId inside the updater
TimeoutFires ==
    /\ timers # <<>>
    /\ LET t == Head(timers)
           nextQueue == NextQueue(queue, t.id, t.difficulty)
       IN /\ queue' = nextQueue
          /\ mastered' = IF t.difficulty = "easy" THEN mastered \cup {t.id}
                         ELSE mastered
          /\ currentCardId' = IF Len(nextQueue) > 0 THEN nextQueue[1] ELSE NoCard
    /\ timers' = Tail(timers)
    /\ UNCHANGED <<cards, isFlipped, clicks>>
    /\ UNCHANGED nonFcVars

\* the Restart Session button of the all-mastered card
RestartSession ==
    /\ cards # <<>>
    /\ ~\E k \in DOMAIN cards : cards[k] = currentCardId
    /\ queue' = cards
    /\ mastered' = {}
    /\ currentCardId' = cards[1]
    /\ UNCHANGED <<cards, isFlipped, timers, clicks>>
    /\ UNCHANGED nonFcVars

FcNext ==
    \/ FlipCard
    \/ HandleResult
    \/ TimeoutFires
    \/ RestartSession

SpecFlashcards == FcInit /\ [][FcNext]_vars

\* ---------------------------------------------------------------- ExamView
\* the component mounts with the questions of the sections
ExInit ==
    /\ \E n \in 0..MaxQuestions : questions \in [1..n -> Options]
    /\ currentQuestionIndex = 0
    /\ selectedAnswers = NoAnswers
    /\ showResults = FALSE
    /\ lateSelect = FALSE
    /\ GenIdle /\ ChunkIdle /\ RecIdle /\ UpIdle
    /\ FcIdle /\ IxIdle

\* handleOptionSelect(optionIndex)
HandleOptionSelect ==
    /\ questions # <<>>
    /\ \E optionIndex \in Options :
           selectedAnswers' = SelectedAfter(selectedAnswers, showResults,
                                            currentQuestionIndex, optionIndex)
    /\ lateSelect' = (lateSelect \/ showResults)
    /\ UNCHANGED <<questions, currentQuestionIndex, showResults>>
    /\ UNCHANGED nonExVars

\* Next Question: setCurrentQuestionIndex(prev => Math.min(length - 1, prev + 1))
NextQuestion ==
    /\ questions # <<>>
    /\ ~showResults
    /\ NextEnabled(selectedAnswers, currentQuestionIndex, Len(questions))
    /\ currentQuestionIndex' =
           IF currentQuestionIndex + 1 < Len(questions) - 1
             THEN currentQuestionIndex + 1 ELSE Len(questions) - 1
    /\ UNCHANGED <<questions, selectedAnswers, showResults, lateSelect>>
    /\ UNCHANGED nonExVars

\* Previous: setCurrentQuestionIndex(prev => Math.max(0, prev - 1))
PreviousQuestion ==
    /\ questions # <<>>
    /\ ~showResults
    /\ currentQuestionIndex # 0
    /\ currentQuestionIndex' =
           IF currentQuestionIndex - 1 > 0 THEN currentQuestionIndex - 1 ELSE 0
    /\ UNCHANGED <<questions, selectedAnswers, showResults, lateSelect>>
    /\ UNCHANGED nonExVars

\* Submit Exam: setShowResults(true)
SubmitExam ==
    /\ questions # <<>>
    /\ ~showResults
    /\ SubmitEnabled(selectedAnswers, currentQuestionIndex, Len(questions))
    /\ showResults' = TRUE
    /\ UNCHANGED <<questions, currentQuestionIndex, selectedAnswers, lateSelect>>
    /\ UNCHANGED nonExVars

\* Retake Exam
RetakeExam ==
    /\ questions # <<>>
    /\ showResults
    /\ showResults' = FALSE
    /\ currentQuestionIndex' = 0
    /\ selectedAnswers' = NoAnswers
    /\ lateSelect' = FALSE
    /\ UNCHANGED questions
    /\ UNCHANGED nonExVars

ExNext ==
    \/ HandleOptionSelect
    \/ NextQuestion
    \/ PreviousQuestion
    \/ SubmitExam
    \/ RetakeExam

SpecExam == ExInit /\ [][ExNext]_vars

\* ------------------------------------------- the index-based flashcard view
\* unnamed/part_000, FlashcardView: a deck, an index into it, and Next and
\* Previous buttons whose index update is deferred by 200 ms.

\* [...cards].sort(() => Math.random() - 0.5): some order of the same cards
Shuffles(d) ==
    {s \in [DOMAIN d -> {d[k] : k \in DOMAIN d}] :
        \A k \in DOMAIN d : \E j \in DOMAIN d : s[j] = d[k]}

\* the view is on the page: the deck is not empty (part_000 line 57) and
\* cards[currentIndex] is a card, so that currentCard.topic does not throw
Rendered(d, idx) == d # <<>> /\ idx \in 0..(Len(d) - 1)

\* the state after the effect on [sections] has run over a guide of n points
IxInit ==
    /\ \E n \in 0..MaxDeck : deck = [k \in 1..n |-> k]
    /\ currentIndex = 0
    /\ flipped = FALSE
    /\ pending = <<>>
    /\ presses = 0
    /\ GenIdle /\ ChunkIdle /\ RecIdle /\ UpIdle
    /\ FcIdle /\ ExIdle

\* a click on the card
FlipIndexCard ==
    /\ Rendered(deck, currentIndex)
    /\ flipped' = ~flipped
    /\ UNCHANGED <<deck, currentIndex, pending, presses>>
    /\ UNCHANGED nonIxVars

\* handleNext(), by the Next button of this render
HandleNext ==
    /\ Rendered(deck, currentIndex)
    /\ presses < MaxClicks
    /\ Len(pending) < MaxPending
    /\ currentIndex # Len(deck) - 1
    /\ currentIndex < Len(deck) - 1
    /\ flipped' = FALSE
    /\ pending' = Append(pending, 1)
    /\ presses' = presses + 1
    /\ UNCHANGED <<deck, currentIndex>>
    /\ UNCHANGED nonIxVars

\* handlePrev(), by the Previous button of this render
HandlePrev ==
    /\ Rendered(deck, currentIndex)
    /\ presses < MaxClicks
    /\ Len(pending) < MaxPending
    /\ currentIndex # 0
    /\ currentIndex > 0
    /\ flipped' = FALSE
    /\ pending' = Append(pending, -1)
    /\ presses' = presses + 1
    /\ UNCHANGED <<deck, currentIndex>>
    /\ UNCHANGED nonIxVars

\* handleShuffle()
HandleShuffle ==
    /\ Rendered(deck, currentIndex)
    /\ presses < MaxClicks
    /\ flipped' = FALSE
    /\ deck' \in Shuffles(deck)
    /\ currentIndex' = 0
    /\ presses' = presses + 1
    /\ UNCHANGED pending
    /\ UNCHANGED nonIxVars

\* the oldest timeout runs setCurrentIndex(c => c + 1) or (c => c - 1); on
\* a view that left the page the update is dropped
IndexTimeoutFires ==
    /\ pending # <<>>
    /\ currentIndex' = IF Rendered(deck, currentIndex)
                       THEN currentIndex + Head(pending)
                       ELSE currentIndex
    /\ pending' = Tail(pending)
    /\ UNCHANGED <<deck, flipped, presses>>
    /\ UNCHANGED nonIxVars

IxNext ==
    \/ FlipIndexCard
    \/ HandleNext
    \/ HandlePrev
    \/ HandleShuffle
    \/ IndexTimeoutFires

SpecIndexCards == IxInit /\ [][IxNext]_vars

\* -------------------------------------------------------------------- App
\* the first render: the useState defaults, the load effect still to run
AppInit ==
    /\ file = NoFile
    /\ hfPc = "idle"
    /\ appStatus = [step |-> "idle"]
    /\ files = <<>>
    /\ activeFileId = "null"
    /\ viewMode = "guide"
    /\ thrown = <<>>
    /\ now = MaxStored
    /\ loaded = FALSE
    /\ storage \in Storages
    /\ lastEdit = NoEdit
    /\ GenIdle /\ ChunkIdle /\ RecIdle
    /\ ViewIdle

\* the load effect of the mount
LoadPersisted ==
    /\ ~loaded
    /\ loaded' = TRUE
    /\ IF storage.kind = "list"
         THEN /\ files' = storage.files
              /\ IF Len(storage.files) > 0
                   THEN /\ activeFileId' = MostRecent(storage.files).id
                        /\ appStatus' = [step |-> "complete"]
                   ELSE UNCHANGED <<activeFileId, appStatus>>
         ELSE UNCHANGED <<files, activeFileId, appStatus>>
    /\ UNCHANGED <<file, hfPc, viewMode, thrown, now, storage>>
    /\ UNCHANGED <<genVars, chunkVars, recVars, viewVars>>
    /\ UNCHANGED lastEdit

\* handleFileSelect starts: the upload card is only rendered in status idle
UploadStarts ==
    /\ loaded
    /\ appStatus.step = "idle"
    /\ hfPc \in {"idle", "done"}
    /\ now < MaxStored + MaxUploads
    /\ appStatus' = [step |-> "parsing",
                     message |-> "Extracting text and high-res visuals from document..."]
    /\ hfPc' = "extract"
    /\ UNCHANGED <<file, files, activeFileId, viewMode, thrown, now, loaded, storage>>
    /\ UNCHANGED <<genVars, chunkVars, recVars, viewVars>>
    /\ UNCHANGED lastEdit

\* handleFileSelect: the extraction resolved
UploadExtracted ==
    /\ hfPc = "extract"
    /\ loaded
    /\ appStatus' = [step |-> "generating",
                     message |-> "Analyzing content, generating detailed bilingual notes..."]
    /\ hfPc' = "generate"
    /\ UNCHANGED <<file, files, activeFileId, viewMode, thrown, now, loaded, storage>>
    /\ UNCHANGED <<genVars, chunkVars, recVars, viewVars>>
    /\ UNCHANGED lastEdit

\* handleFileSelect: the extraction or the generation rejected
UploadFails ==
    /\ hfPc \in {"extract", "generate"}
    /\ loaded
    /\ thrown' = <<[message |-> LibraryMessage]>>
    /\ appStatus' = CatchStatus(thrown'[1])
    /\ hfPc' = "done"
    /\ UNCHANGED <<file, files, activeFileId, viewMode, now, loaded, storage>>
    /\ UNCHANGED <<genVars, chunkVars, recVars, viewVars>>
    /\ UNCHANGED lastEdit

\* handleFileSelect: the generation resolved; the new file, whose id is
\* Date.now().toString(), is stored in front and made the active one
UploadStores ==
    /\ hfPc = "generate"
    /\ loaded
    /\ now' = now + 1
    /\ files' = <<StoredFile(now', now')>> \o files
    /\ activeFileId' = ToString(now')
    /\ appStatus' = [step |-> "complete"]
    /\ viewMode' = "guide"
    /\ hfPc' = "done"
    /\ UNCHANGED <<file, thrown, loaded, storage>>
    /\ UNCHANGED <<genVars, chunkVars, recVars, viewVars>>
    /\ UNCHANGED lastEdit

\* a file of the sidebar is clicked
SelectInSidebar ==
    /\ loaded
    /\ SidebarShown
    /\ \E k \in DOMAIN files : activeFileId' = files[k].id
    /\ appStatus' = [step |-> "complete"]
    /\ UNCHANGED <<file, hfPc, files, viewMode, thrown, now, loaded, storage>>
    /\ UNCHANGED <<genVars, chunkVars, recVars, viewVars>>
    /\ UNCHANGED lastEdit

\* the Upload New button of the sidebar
UploadNew ==
    /\ loaded
    /\ SidebarShown
    /\ appStatus' = [step |-> "idle"]
    /\ activeFileId' = "null"
    /\ UNCHANGED <<file, hfPc, files, viewMode, thrown, now, loaded, storage>>
    /\ UNCHANGED <<genVars, chunkVars, recVars, viewVars>>
    /\ UNCHANGED lastEdit

\* handleDeleteFile(id, e) with the confirm dialog accepted
HandleDeleteFile ==
    /\ loaded
    /\ SidebarShown
    /\ \E k \in DOMAIN files :
           LET id == files[k].id
               newFiles == FilesWithout(files, id)
           IN /\ files' = newFiles
              /\ activeFileId' = ActiveAfterDelete(activeFileId, id, newFiles)
              /\ appStatus' = StatusAfterDelete(appStatus, activeFileId, id, newFiles)
    /\ UNCHANGED <<file, hfPc, viewMode, thrown, now, loaded, storage>>
    /\ UNCHANGED <<genVars, chunkVars, recVars, viewVars>>
    /\ UNCHANGED lastEdit

\* handleKeyDown with Ctrl or Cmd held
HandleKeyDown ==
    /\ loaded
    /\ appStatus.step = "complete"
    /\ activeFileId # "null"
    /\ \E key \in {"1", "2", "3", "ArrowRight", "ArrowLeft"} :
           LET idx == FindIndex(files, activeFileId)
           IN CASE key = "1" -> viewMode' = "guide" /\ UNCHANGED activeFileId
                [] key = "2" -> viewMode' = "flashcards" /\ UNCHANGED activeFileId
                [] key = "3" -> viewMode' = "exam" /\ UNCHANGED activeFileId
                [] key = "ArrowRight" ->
                     /\ activeFileId' = IF idx < Len(files)
                                          THEN files[idx + 1].id ELSE activeFileId
                     /\ UNCHANGED viewMode
                [] key = "ArrowLeft" ->
                     /\ activeFileId' = IF idx > 1
                                          THEN files[idx - 1].id ELSE activeFileId
                     /\ UNCHANGED viewMode
    /\ UNCHANGED <<file, hfPc, appStatus, files, thrown, now, loaded, storage>>
    /\ UNCHANGED <<genVars, chunkVars, recVars, viewVars>>
    /\ UNCHANGED lastEdit

AppNext ==
    \/ LoadPersisted
    \/ UploadStarts
    \/ UploadExtracted
    \/ UploadFails
    \/ UploadStores
    \/ TryAgain
    \/ SelectInSidebar
    \/ UploadNew
    \/ HandleDeleteFile
    \/ HandleKeyDown

SpecApp == AppInit /\ [][AppNext]_vars

\* ------------------------------------------------ editing the study guide
\* App.tsx, handleUpdateContent and updateActiveFile, called by the
\* EditableBlock of a content point of the study guide when it loses focus
\* with a changed text.

\* the two editable fields of a StudyPoint
Fields == {"english", "chinese"}

\* the texts a user types, none of them a text of EditPoint
TypedTexts == {<<"typed", 0, 0, n>> : n \in 1..2}

\* a content point, a section and a file as the pipeline stored them; s and
\* p number the section and the point so that every text is distinct
EditPoint(t, s, p) ==
    [english |-> <<"en", t, s, p>>, chinese |-> <<"zh", t, s, p>>,
     keyTerm |-> <<"key", t, s, p>>]

EditSection(t, s, nPoints) ==
    [topic |-> <<"topic", t, s>>,
     content |-> [p \in 1..nPoints |-> EditPoint(t, s, p)],
     images |-> <<<<"img", t, s>>>>]

EditFile(t, nSections, nPoints) ==
    [id |-> ToString(t), name |-> <<"old", ".pdf">>, lastAccessed |-> t,
     sections |-> [s \in 1..nSections |-> EditSection(t, s, nPoints)],
     flashcardProgress |-> [mastered |-> <<>>, queue |-> <<>>]]

\* const activeFile = files.find(f => f.id === activeFileId)
HasActiveFile(fs, active) == \E k \in DOMAIN fs : fs[k].id = active

ActiveFile(fs, active) ==
    fs[CHOOSE k \in DOMAIN fs :
           /\ fs[k].id = active
           /\ \A j \in 1..(k - 1) : fs[j].id # active]

\* a variant of PointWith that writes both languages
PointWithBoth(point, field, newValue) ==
    [point EXCEPT !.english = newValue, !.chinese = newValue]

\* { ...content[contentIndex], [field]: newValue }
PointWith(point, field, newValue) == [point EXCEPT ![field] = newValue]

\* newSections of handleUpdateContent; the indices are those of the arrays,
\* counted from 0
SectionsWith(sections, sectionIndex, contentIndex, field, newValue) ==
    [sections EXCEPT ![sectionIndex + 1].content[contentIndex + 1] =
        PointWith(@, field, newValue)]

\* prev.map(f => f.id === activeFileId
\*               ? { ...f, ...updates, lastAccessed: Date.now() } : f)
UpdateActiveFile(prev, active, newSections, t) ==
    [k \in DOMAIN prev |->
        IF prev[k].id = active
        THEN [prev[k] EXCEPT !.sections = newSections, !.lastAccessed = t]
        ELSE prev[k]]

\* two stored files are loaded, one is active and shown as study guide
EditInit ==
    /\ file = NoFile
    /\ hfPc = "idle"
    /\ appStatus = [step |-> "complete"]
    /\ \E n1, n2 \in 1..MaxEditSections : \E p \in 1..MaxPoints :
           files = <<EditFile(2, n1, p), EditFile(1, n2, 1)>>
    /\ activeFileId \in {"1", "2"}
    /\ viewMode = "guide"
    /\ thrown = <<>>
    /\ now = 2
    /\ loaded = TRUE
    /\ storage = NoStorage
    /\ lastEdit = NoEdit
    /\ GenIdle /\ ChunkIdle /\ RecIdle
    /\ ViewIdle

\* a content point loses focus with a changed text
HandleUpdateContent ==
    /\ appStatus.step = "complete"
    /\ viewMode = "guide"
    /\ HasActiveFile(files, activeFileId)
    /\ now < 2 + MaxEdits
    /\ LET sections == ActiveFile(files, activeFileId).sections
       IN  \E s \in DOMAIN sections : \E p \in DOMAIN sections[s].content :
           \E field \in Fields : \E newValue \in TypedTexts :
              /\ newValue # sections[s].content[p][field]
              /\ now' = now + 1
              /\ files' = UpdateActiveFile(files, activeFileId,
                              SectionsWith(sections, s - 1, p - 1, field,
                                           newValue), now')
              /\ lastEdit' = [sectionIndex |-> s - 1, contentIndex |-> p - 1,
                              field |-> field, newValue |-> newValue]
    /\ UNCHANGED <<file, hfPc, appStatus, activeFileId, viewMode, thrown,
                   loaded, storage>>
    /\ UNCHANGED <<genVars, chunkVars, recVars, viewVars>>

EditNext ==
    \/ HandleUpdateContent
    \/ SelectInSidebar

SpecEdit == EditInit /\ [][EditNext]_vars

\* ================================================================== claims
ChunkIds == 0..(nChunks - 1)

\* the sections of seq that were derived from chunk c, in their order in seq
SectionsFrom(c, seq) == SelectSeq(seq, LAMBDA s : s.chunk = c)

\* the chunk being processed has run out of attempts without success
RecordedAsFailed == pc = "while" /\ ~success /\ retries >= maxRetries

\* an attempt failure in the words of section 4.2: transport error, parse
\* failure, schema mismatch, empty or missing response body
AttemptFailed(r) ==
    r.kind \in {"throw", "notjson", "null", "nosections", "notarray",
                "undefined", "empty"}

\* C1: a chunk whose every attempt failed has been attempted exactly 3 times
\* when it is recorded as failed, and the failed-chunk counter went up by
\* exactly one for it.
C1_ExactlyThreeAttempts ==
    RecordedAsFailed =>
        /\ calls = 3
        /\ errorCount = Cardinality(exhausted) + 1

\* C2: every kind of attempt failure advances the attempt counter by one, and
\* a further call for the chunk is issued only while fewer than 3 attempts
\* have been made.
C2_EveryFailureCounts ==
    [][/\ (pc = "response" /\ AttemptFailed(resp)) => retries' = retries + 1
       /\ (pc = "call" /\ pc' = "inflight") => calls < 3]_vars

\* C3: the run finishes having issued at most 3 generation calls per chunk;
\* in the form a finite run refutes: no chunk ever gets a 4th call.
C3_AtMostThreeCallsPerChunk == calls <= 3

\* C4: sections of an earlier chunk precede those of a later chunk, and the
\* sections of one chunk keep the order the model returned them in, in the
\* accumulator and in the returned list.
InChunkThenModelOrder(seq) ==
    \A p, q \in DOMAIN seq :
        p < q => \/ seq[p].chunk < seq[q].chunk
                 \/ seq[p].chunk = seq[q].chunk /\ seq[p].idx < seq[q].idx

C4_ChunkOrderPreserved ==
    /\ InChunkThenModelOrder(allSections)
    /\ status = "returned" => InChunkThenModelOrder(result)

C4_Witness ==
    /\ pc = "done" /\ status = "returned"
    /\ \E p, q \in DOMAIN result : result[p].chunk # result[q].chunk
    /\ \E p, q \in DOMAIN result :
           p # q /\ result[p].chunk = result[q].chunk

\* C5: when some chunk succeeded with sections and some chunk exhausted its
\* retries, the run returns exactly the successful chunks' sections, nothing
\* from an exhausted chunk, and errorCount is the number of exhausted chunks.
RECURSIVE ReturnedUpTo(_)
ReturnedUpTo(k) == IF k = 0 THEN <<>> ELSE ReturnedUpTo(k - 1) \o returned[k - 1]

PartialFailure ==
    /\ pc = "done"
    /\ \E c \in ChunkIds : c \notin exhausted /\ returned[c] # <<>>
    /\ exhausted # {}

C5_PartialResult ==
    PartialFailure =>
        /\ status = "returned"
        /\ result = ReturnedUpTo(nChunks)
        /\ \A p \in DOMAIN result : result[p].chunk \notin exhausted
        /\ errorCount = Cardinality(exhausted)

C5_Witness ==
    PartialFailure /\ Cardinality(exhausted) = 2 /\ Len(result) = 2

\* C6: zero sections and at least one exhausted chunk: the run throws the
\* connectivity error reporting 0/N, N the number of chunks.
C6_ConnectionFailedReportsTotal ==
    (pc = "done" /\ Len(allSections) = 0 /\ exhausted # {}) =>
        /\ status = "threw"
        /\ error = [kind |-> "ConnectionFailed", processed |-> 0,
                    total |-> nChunks]

C6_Witness ==
    /\ pc = "done" /\ nChunks = 3 /\ exhausted = {0, 1, 2}
    /\ error.kind = "ConnectionFailed" /\ error.total = 3

\* C7: zero sections and no recorded chunk failure: the run throws the
\* unreadable/empty document error, not the connectivity error.
C7_NoContentWhenNoFailure ==
    (pc = "done" /\ Len(allSections) = 0 /\ errorCount = 0 /\ exhausted = {}) =>
        /\ status = "threw"
        /\ error.kind = "NoContent"

C7_Witness ==
    /\ pc = "done" /\ nChunks = 1 /\ i = 1 /\ exhausted = {}
    /\ returned[0] = <<>> /\ error.kind = "NoContent"

\* C8: a finished run returned at least one section or threw one descriptive
\* error; it never returns an empty list.
C8_NeverEmptyResult ==
    pc = "done" =>
        \/ status = "returned" /\ Len(result) >= 1 /\ error = NoError
        \/ /\ status = "threw" /\ result = <<>>
           /\ error.kind \in {"ConnectionFailed", "NoContent"}

C8_Witness ==
    pc = "done" /\ status = "returned" /\ exhausted # {} /\ Len(result) = 1

\* C9 as claimed: an attempt is a success only with a non-empty sections
\* array, and an empty sections array is an attempt failure that is retried.
C9_SuccessNeedsNonEmptySections ==
    [][pc = "response" =>
         /\ success' => (resp.kind = "array" /\ Len(resp.secs) > 0)
         /\ (resp.kind = "array" /\ resp.secs = <<>>) =>
                (~success' /\ retries' = retries + 1)]_vars

\* C9 amended: an attempt is a success exactly when a response body is
\* returned, it parses and it carries a sections array, empty or not; an empty
\* sections array is a success that appends nothing and is not retried.
C9_SuccessIffSectionsArray ==
    [][pc = "response" =>
         /\ success' <=> resp.kind = "array"
         /\ (resp.kind = "array" /\ resp.secs = <<>>) =>
                /\ success'
                /\ allSections' = allSections
                /\ retries' = retries
                /\ errorCount' = errorCount]_vars

C9_Witness ==
    pc = "while" /\ success /\ returned[i] = <<>> /\ calls = 1

\* C10: after a successful attempt no further call is issued for the chunk,
\* and the accumulator holds each chunk's returned sections exactly once.
C10_SuccessStopsChunk ==
    /\ pc \in {"delay", "call", "inflight", "response"} => ~success
    /\ \A c \in ChunkIds : SectionsFrom(c, allSections) = returned[c]

C10_Witness ==
    pc = "while" /\ success /\ calls = 2 /\ Len(returned[i]) = 2

\* C11: a chunk that exhausts its attempts does not end the run: chunks get
\* their first call in increasing index order without a gap, the chunk after
\* an exhausted one is attempted too, and the loop is only left after every
\* chunk has had at least one call.
C11_EveryChunkAttemptedInOrder ==
    /\ attempted = [k \in 1..Len(attempted) |-> k - 1]
    /\ pc \in {"post", "done"} => Len(attempted) = nChunks
    /\ \A c \in exhausted :
           (c + 1 < nChunks /\ status # "running") => Len(attempted) > c + 1

C11_Witness ==
    /\ pc = "done" /\ nChunks = 3 /\ {0, 1} \subseteq exhausted
    /\ attempted = <<0, 1, 2>>

\* C12: every generation call but the very first of the run comes right after
\* a wait, the first attempt of a later chunk included, and within a chunk
\* the wait before an attempt is strictly longer than before the previous one.
\* (At the delay step `waited` still holds the wait before the previous call.)
C12_EveryCallButFirstWaits ==
    [][pc = "delay" =>
         /\ ~(i = 0 /\ calls = 0) => waited' > 0
         /\ calls > 0 => waited' > waited]_vars

\* ------------------------------------------------------ claims on chunkText
RECURSIVE Flatten(_)
Flatten(ss) == IF ss = <<>> THEN <<>> ELSE Head(ss) \o Flatten(Tail(ss))

Blank(t) == \A p \in DOMAIN t : t[p] \in Whitespace

\* the lines a chunk holds, each of them followed by a line break in the chunk
LinesIn(chunk) ==
    LET ls == SplitLines(chunk) IN SubSeq(ls, 1, Len(ls) - 1)

RECURSIVE ChunkLines(_)
ChunkLines(cs) ==
    IF cs = <<>> THEN <<>> ELSE LinesIn(Head(cs)) \o ChunkLines(Tail(cs))

IsPrefix(a, b) == Len(a) <= Len(b) /\ SubSeq(b, 1, Len(a)) = a

\* C13 as claimed: the chunks, concatenated in order, are the text.
C13_ConcatIsText ==
    ctPc = "chunked" => Flatten(chunks) = text

\* C13 amended: the chunks, concatenated in order, are the text followed by
\* one extra line break, less a whitespace-only tail (the last accumulator,
\* dropped when it holds nothing but whitespace).
C13_ConcatIsTextPlusBreak ==
    ctPc = "chunked" =>
        LET full == text \o <<"\n">>
            got == Flatten(chunks)
        IN /\ IsPrefix(got, full)
           /\ Blank(SubSeq(full, Len(got) + 1, Len(full)))
           /\ TrimmedNonEmpty(LET ls == SplitLines(text) IN ls[Len(ls)])
                  => got = full

C13_Witness ==
    /\ ctPc = "chunked" /\ Len(chunks) = 2
    /\ Flatten(chunks) # text
    /\ Flatten(chunks) # text \o <<"\n">>

\* every chunk is a run of whole consecutive input lines, each followed by
\* its line break
WholeLines ==
    /\ \A c \in DOMAIN chunks :
           chunks[c] # <<>> /\ chunks[c][Len(chunks[c])] = "\n"
    /\ IsPrefix(ChunkLines(chunks), SplitLines(text))

\* C14 as claimed: no line is split, and every line longer than maxLength is
\* emitted whole inside one chunk.
C14_LongLineEmittedWhole ==
    ctPc = "chunked" =>
        /\ WholeLines
        /\ \A k \in DOMAIN SplitLines(text) :
               Len(SplitLines(text)[k]) > maxLength
                   => k <= Len(ChunkLines(chunks))

\* C14 amended: no line is split, and a line longer than maxLength is emitted
\* whole inside one chunk unless it is whitespace only and lies in the last
\* accumulator, which is dropped when it holds nothing but whitespace.
C14_NoLineSplit ==
    ctPc = "chunked" =>
        /\ WholeLines
        /\ \A k \in DOMAIN SplitLines(text) :
               (Len(SplitLines(text)[k]) > maxLength
                    /\ TrimmedNonEmpty(SplitLines(text)[k]))
                   => /\ k <= Len(ChunkLines(chunks))
                      /\ \E c \in DOMAIN chunks :
                             LinesIn(chunks[c]) = <<SplitLines(text)[k]>>
        /\ \A k \in DOMAIN SplitLines(text) :
               k > Len(ChunkLines(chunks)) => Blank(SplitLines(text)[k])

C14_Witness ==
    /\ ctPc = "chunked" /\ Len(chunks) = 3
    /\ \E k \in DOMAIN SplitLines(text) :
           /\ Len(SplitLines(text)[k]) > maxLength
           /\ TrimmedNonEmpty(SplitLines(text)[k])

\* C15: every chunk is at most maxLength characters long, unless it consists
\* of a single line that is itself longer than maxLength.
C15_ChunkWithinMaxLength ==
    ctPc = "chunked" =>
        \A c \in DOMAIN chunks :
            \/ Len(chunks[c]) <= maxLength
            \/ /\ Len(LinesIn(chunks[c])) = 1
               /\ Len(LinesIn(chunks[c])[1]) > maxLength

\* ------------------------------------------- claims on the image matching
\* positions p..q of the topic are a reference: a keyword, at most one
\* whitespace character, then all the digits that follow
IsReference(topic, p, q) ==
    /\ p \in DOMAIN topic /\ q \in DOMAIN topic /\ p < q
    /\ IsKeyword(topic[p])
    /\ IsDigit(topic[q])
    /\ q + 1 \in DOMAIN topic => ~IsDigit(topic[q + 1])
    /\ \E d \in (p + 1)..q :
           /\ \A k \in d..q : IsDigit(topic[k])
           /\ d = p + 1 \/ (d = p + 2 /\ IsSpace(topic[p + 1]))

\* the number written by the digits at positions d..q
RECURSIVE NumberAt(_, _, _)
NumberAt(topic, d, q) ==
    IF d > q THEN 0
    ELSE IF ~IsDigit(topic[d]) THEN NumberAt(topic, d + 1, q)
    ELSE LET rest == NumberAt(topic, d + 1, q)
             RECURSIVE Pow10(_)
             Pow10(e) == IF e = 0 THEN 1 ELSE 10 * Pow10(e - 1)
             digitsAfter == Cardinality({k \in (d + 1)..q : IsDigit(topic[k])})
         IN DigitValue(topic[d]) * Pow10(digitsAfter) + rest

HasReference(topic) == \E p, q \in DOMAIN topic : IsReference(topic, p, q)

\* the number of the first reference of the topic
FirstReferenceNumber(topic) ==
    LET p == CHOOSE a \in DOMAIN topic :
                 /\ \E q \in DOMAIN topic : IsReference(topic, a, q)
                 /\ \A b \in 1..(a - 1) :
                        ~\E q \in DOMAIN topic : IsReference(topic, b, q)
        q == CHOOSE b \in DOMAIN topic : IsReference(topic, p, b)
    IN NumberAt(topic, p + 1, q)

\* C16: each section gets exactly the images stored at the number of the
\* first Slide/Page reference of its topic, in their order; no reference, no
\* entry or an empty entry give no images, whatever else the topic or the
\* index holds.
C16_ImagesOfFirstReference ==
    rcPc = "matched" =>
        \A k \in DOMAIN rawSections :
            LET topic == rawSections[k].topic
            IN enrichedSections[k].images =
                   IF HasReference(topic)
                        /\ FirstReferenceNumber(topic) \in DOMAIN imageMap
                     THEN imageMap[FirstReferenceNumber(topic)]
                     ELSE <<>>

\* "Slide 1: ..." with two images at 1 gets them; a first reference without
\* an entry gets nothing although a later reference has images
C16_Witness ==
    /\ rcPc = "matched"
    /\ \E k \in DOMAIN rawSections :
           /\ rawSections[k].topic = <<"Slide", " ", "1", "x">>
           /\ enrichedSections[k].images = <<"img1", "img2">>
    /\ \E k \in DOMAIN rawSections :
           /\ rawSections[k].topic = <<"x">>
           /\ enrichedSections[k].images = <<>>
    /\ DOMAIN imageMap = {1}

C16_WitnessLaterReference ==
    /\ rcPc = "matched"
    /\ \E k \in DOMAIN rawSections :
           /\ rawSections[k].topic = <<"Slide", "1", "page", "2">>
           /\ enrichedSections[k].images = <<>>
    /\ DOMAIN imageMap = {2} /\ imageMap[2] # <<>>

\* C17: the matching changes only the images field: same number and order of
\* sections, same topic, content, visualSummary and questions, and the image
\* index and the raw sections are left as they were.
C17_OnlyImagesChange ==
    [][(rcPc = "ready" /\ rcPc' = "matched") =>
         /\ imageMap' = imageMap
         /\ rawSections' = rawSections
         /\ Len(enrichedSections') = Len(rawSections)
         /\ \A k \in DOMAIN rawSections :
                /\ enrichedSections'[k].topic = rawSections[k].topic
                /\ enrichedSections'[k].content = rawSections[k].content
                /\ enrichedSections'[k].visualSummary
                       = rawSections[k].visualSummary
                /\ enrichedSections'[k].questions = rawSections[k].questions]_vars

C17_Witness ==
    /\ rcPc = "matched" /\ Len(enrichedSections) = 2
    /\ enrichedSections[1].topic # enrichedSections[2].topic
    /\ enrichedSections[2].images # <<>>

\* ---------------------------------------------------- claims on an upload
\* the text has been extracted and handed to generateStudyGuide
TextExtracted == hfPc \in {"generate", "done"} /\ ctPc = "chunked"

\* C18: an extracted text of fewer than 50 characters never leads to a call
\* of the generation capability, and the upload ends in the error status.
C18_ShortTextNeverGenerated ==
    (TextExtracted /\ Len(text) < 50) =>
        /\ calls = 0
        /\ hfPc = "done" => appStatus.step = "error"

\* neither a PDF nor a PPTX, by MIME type and by extension
NeitherPdfNorPptx(f) ==
    /\ f.type \in {"text/plain", ""}
    /\ f.name \in {<<"notes", ".txt">>, <<"README">>}

\* C19: for a file that is neither a PDF nor a PPTX the upload makes no
\* generation call, generateStudyGuide is not even entered, and once the
\* handler is through the status is 'error' with the unsupported-format
\* message.
C19_UnsupportedFormatFails ==
    (hfPc # "idle" /\ NeitherPdfNorPptx(file)) =>
        /\ calls = 0
        /\ pc = "idle"
        /\ ctPc = "idle"
        /\ hfPc \in {"extract", "done"}
        /\ hfPc = "extract" => appStatus.step = "parsing"
        /\ hfPc = "done" =>
               /\ appStatus.step = "error"
               /\ appStatus.message
                      = "Unsupported file format. Please upload a PDF or PPTX."
               /\ thrown # <<>>

C19_Witness ==
    /\ hfPc = "done"
    /\ file = [type |-> "text/plain", name |-> <<"notes", ".txt">>]
    /\ appStatus.step = "error"
    /\ files = <<PriorFile>>

\* generation has come to an end with sections to return
GenerationSucceeded == pc = "done" /\ status = "returned"

\* C20: a step that ends handleFileSelect after a failure of the extraction
\* or of the generation sets the status 'error' with the message of the
\* thrown error and leaves files and activeFileId alone; files, activeFileId
\* and the status 'complete' change only in a step taken after the extraction
\* and the generation have both succeeded.
C20_UniformFailureNoPartialState ==
    [][/\ (hfPc \in {"extract", "generate"} /\ hfPc' = "done"
              /\ ~(TextExtracted /\ GenerationSucceeded)) =>
           /\ appStatus'.step = "error"
           /\ thrown' # <<>>
           /\ appStatus'.message = thrown'[1].message
           /\ hfPc = "generate" => appStatus'.message = ErrorMessage(error)
           /\ files' = files
           /\ activeFileId' = activeFileId
       /\ (files' # files \/ activeFileId' # activeFileId
              \/ appStatus'.step = "complete") =>
           /\ TextExtracted
           /\ GenerationSucceeded
           /\ Len(files') = Len(files) + 1
           /\ appStatus'.step = "complete"
           /\ thrown' = <<>>]_vars

\* generation failed after calls were made, with an earlier file in store
C20_Witness ==
    /\ hfPc = "done"
    /\ appStatus.step = "error"
    /\ calls > 0
    /\ files = <<PriorFile>>
    /\ activeFileId = "null"

C20_WitnessStored ==
    /\ hfPc = "done"
    /\ appStatus.step = "complete"
    /\ Len(files) = 2
    /\ activeFileId = files[1].id

\* ------------------------------------------ claims on the order of the run
\* chunk c is through: one attempt succeeded or its attempts ran out
ChunkSettled(c) == c \in succeeded \/ c \in exhausted

\* C21: at most one generation call is in flight; while the run waits or
\* calls for chunk i every earlier chunk has succeeded or exhausted its
\* attempts, and so had every chunk before a chunk that got a call.
C21_StrictlySequential ==
    /\ inFlight <= 1
    /\ inFlight = 1 <=> pc = "inflight"
    /\ pc \in {"delay", "call", "inflight", "response"} =>
           \A c \in 0..(i - 1) : ChunkSettled(c)
    /\ \A k \in DOMAIN attempted :
           \A c \in 0..(attempted[k] - 1) : ChunkSettled(c)

\* a call for the third chunk is in flight after one chunk succeeded and
\* one ran out of attempts
C21_Witness ==
    /\ pc = "inflight" /\ i = 2 /\ inFlight = 1
    /\ succeeded # {} /\ exhausted # {}

\* C22: allSections only grows at its end: its old value is a prefix of its
\* new value in every step, and a step that handles a failed attempt leaves
\* it as it was.
C22_AccumulatorAppendOnly ==
    [][/\ Len(allSections') >= Len(allSections)
       /\ SubSeq(allSections', 1, Len(allSections)) = allSections
       /\ (pc = "response" /\ resp.kind \in FailureKinds) =>
              allSections' = allSections]_vars

\* sections of the third chunk were added behind those of the first, the
\* failed attempts of the second in between having added nothing
C22_Witness ==
    /\ nChunks = 3
    /\ 1 \in exhausted
    /\ returned[0] # <<>> /\ returned[2] # <<>>
    /\ allSections = returned[0] \o returned[2]

\* ------------------------------------------- claims on whitespace chunks
\* C23 as claimed: no chunk is empty or whitespace-only.
C23_NoBlankChunk ==
    ctPc = "chunked" => \A c \in DOMAIN chunks : ~Blank(chunks[c])

\* C23 amended: no chunk is empty; when the text is no longer than maxLength
\* no chunk is whitespace-only, and such a text yields no chunk at all when
\* it is empty or whitespace-only.  (A chunk flushed inside the loop is not
\* tested for whitespace.)
C23_NoBlankChunkOfShortText ==
    ctPc = "chunked" =>
        /\ \A c \in DOMAIN chunks : chunks[c] # <<>>
        /\ Len(text) <= maxLength =>
               /\ \A c \in DOMAIN chunks : ~Blank(chunks[c])
               /\ Blank(text) => chunks = <<>>
        /\ text = <<>> => chunks = <<>>

\* a text of a space and a line break gives no chunk
C23_Witness ==
    /\ ctPc = "chunked"
    /\ text = <<" ", "\n">>
    /\ maxLength = 2
    /\ chunks = <<>>

\* no chunks, no generation call
C23_NoChunksNoCalls ==
    nChunks = 0 => (calls = 0 /\ inFlight = 0 /\ attempted = <<>>)

\* ------------------------------------------ claims on the flashcard queue
\* how often the id occurs in the queue
Occurrences(q, id) == Cardinality({k \in DOMAIN q : q[k] = id})

\* C24: every card id is in exactly one place, once in the queue or in the
\* mastered set, whatever the ratings and whenever the clicks arrive.
C24_EveryCardInOnePlace ==
    \A k \in DOMAIN cards :
        \/ Occurrences(queue, cards[k]) = 1 /\ cards[k] \notin mastered
        \/ Occurrences(queue, cards[k]) = 0 /\ cards[k] \in mastered

\* the queue without the card
Without(q, id) == LET keep(x) == x # id IN SelectSeq(q, keep)

\* C25: a timeout that fires for the card at the head of the queue removes
\* it and adds it to mastered (easy), moves it to the end (medium) or puts it
\* at index min(4, length of the rest) (hard); the other cards keep their
\* order, and the new current card is the head of the new queue, or none.
C25_RequeuePolicy ==
    [][(/\ timers # <<>>
        /\ timers' = Tail(timers)
        /\ queue # <<>>
        /\ Head(timers).id = Head(queue)
        /\ Occurrences(queue, Head(queue)) = 1) =>
         LET id == Head(queue)
             rest == Tail(queue)
             d == Head(timers).difficulty
             at == IF Len(rest) < 4 THEN Len(rest) ELSE 4
         IN /\ d = "easy" =>
                   queue' = rest /\ mastered' = mastered \cup {id}
            /\ d = "medium" =>
                   /\ Len(queue') = Len(queue)
                   /\ queue'[Len(queue')] = id
                   /\ mastered' = mastered
            /\ d = "hard" =>
                   /\ Len(queue') = Len(queue)
                   /\ queue'[at + 1] = id
                   /\ mastered' = mastered
            /\ Without(queue', id) = rest
            /\ currentCardId' = IF queue' = <<>> THEN NoCard ELSE queue'[1]]_vars

\* a hard card of a six-card deck sits at index 4 of the queue
C25_Witness ==
    /\ Len(cards) = 6
    /\ queue = <<2, 3, 4, 5, 1, 6>>
    /\ currentCardId = 2
    /\ timers = <<>>

\* the last card was rated easy: nothing is current
C25_WitnessAllMastered ==
    /\ cards # <<>>
    /\ queue = <<>>
    /\ mastered = {cards[k] : k \in DOMAIN cards}
    /\ currentCardId = NoCard

\* --------------------------------------------------- claims on the exam
\* C26: while the results are not shown every question before the current
\* one has a selected answer; the results are only shown with an answer for
\* every question, and a step that shows them starts on the last question.
C26_AnsweredBeforeCurrent ==
    /\ ~showResults =>
           \A idx \in 0..(currentQuestionIndex - 1) : idx \in DOMAIN selectedAnswers
    /\ showResults =>
           /\ \A idx \in 0..(Len(questions) - 1) : idx \in DOMAIN selectedAnswers
           /\ currentQuestionIndex = Len(questions) - 1
    /\ questions # <<>> => currentQuestionIndex \in 0..(Len(questions) - 1)

\* back on the first of three questions with all three answered, and
\* the results of a three-question exam
C26_Witness ==
    /\ Len(questions) = 3
    /\ showResults
    /\ DOMAIN selectedAnswers = {0, 1, 2}

C26_WitnessWentBack ==
    /\ Len(questions) = 3
    /\ ~showResults
    /\ currentQuestionIndex = 0
    /\ DOMAIN selectedAnswers = {0, 1}

\* C27: with the results shown a step either leaves everything of the exam
\* as it is (selecting an option does) or is Retake Exam, which goes to
\* question 0 with no selected answers and the results hidden.
C27_ResultsAreFrozen ==
    [][showResults =>
         \/ /\ showResults'
            /\ selectedAnswers' = selectedAnswers
            /\ currentQuestionIndex' = currentQuestionIndex
            /\ CalculateScore(questions', selectedAnswers')
                   = CalculateScore(questions, selectedAnswers)
         \/ /\ ~showResults'
            /\ currentQuestionIndex' = 0
            /\ selectedAnswers' = <<>>]_vars

\* an option was selected while the results were shown
C27_Witness ==
    /\ showResults
    /\ lateSelect
    /\ Len(questions) = 2
    /\ CalculateScore(questions, selectedAnswers) = 1

\* ---------------------------------------------------- claims on the App
\* C28: whenever the status is 'complete' the active file id is the id of a
\* file of the list; a step that empties the list leaves the status 'idle'
\* and no file active.
C28_ActiveFileIsListed ==
    /\ [](appStatus.step = "complete" =>
             \E k \in DOMAIN files : files[k].id = activeFileId)
    /\ [][(files # <<>> /\ files' = <<>>) =>
             (appStatus'.step = "idle" /\ activeFileId' = "null")]_vars

\* the active one of three files was deleted, two are left
C28_Witness ==
    /\ appStatus.step = "complete"
    /\ Len(files) = 2
    /\ now = MaxStored + 1
    /\ Len(storage.files) = 2
    /\ activeFileId = files[1].id
    /\ ToString(now) \notin Ids(files)

\* every file was deleted
C28_WitnessEmptied ==
    /\ loaded
    /\ files = <<>>
    /\ Len(storage.files) = 2
    /\ appStatus.step = "idle"

\* ------------------------------------------- claims on editing the guide
\* C29: an edit through handleUpdateContent changes only the named field of
\* the named content point of the active file, and that file's lastAccessed;
\* the number and order of files, sections and content points, every other
\* field, the images and every other file stay as they were.
C29_EditChangesOneField ==
    [][now' # now =>
        /\ Len(files') = Len(files)
        /\ \A k \in DOMAIN files :
              IF files[k].id # activeFileId
              THEN files'[k] = files[k]
              ELSE /\ files'[k].id = files[k].id
                   /\ files'[k].name = files[k].name
                   /\ files'[k].flashcardProgress = files[k].flashcardProgress
                   /\ files'[k].lastAccessed = now'
                   /\ Len(files'[k].sections) = Len(files[k].sections)
                   /\ \A s \in DOMAIN files[k].sections :
                        LET old == files[k].sections[s]
                            new == files'[k].sections[s]
                        IN  /\ new.topic = old.topic
                            /\ new.images = old.images
                            /\ Len(new.content) = Len(old.content)
                            /\ \A p \in DOMAIN old.content :
                                 /\ new.content[p].keyTerm =
                                        old.content[p].keyTerm
                                 /\ \A f \in Fields :
                                      new.content[p][f] =
                                        IF /\ s - 1 = lastEdit'.sectionIndex
                                           /\ p - 1 = lastEdit'.contentIndex
                                           /\ f = lastEdit'.field
                                        THEN lastEdit'.newValue
                                        ELSE old.content[p][f]]_vars

\* the second point of the second section of the newer file was edited in
\* Chinese, then the older file was edited in English
C29_Witness ==
    /\ Len(files) = 2
    /\ Len(files[1].sections) = 2
    /\ Len(files[1].sections[2].content) = 2
    /\ files[1].sections[2].content[2].chinese = <<"typed", 0, 0, 1>>
    /\ files[1].sections[2].content[2].english = <<"en", 2, 2, 2>>
    /\ files[2].sections[1].content[1].english = <<"typed", 0, 0, 2>>
    /\ files[1].lastAccessed = 3
    /\ files[2].lastAccessed = 4
    /\ lastEdit.field = "english"

\* ------------------------------- claims on the index-based flashcard view
\* C30: with a non-empty deck the current index is always one of
\* 0 .. cards.length - 1, also when clicks arrive before the deferred index
\* update of an earlier click has run.
C30_IndexInRange ==
    deck # <<>> => currentIndex \in 0..(Len(deck) - 1)

====
